---- MODULE Spec2Model ----
(***************************************************************************)
(* Model of src/emulator.py: a shell emulator over an in-memory virtual    *)
(* filesystem (VFS) loaded from a CSV listing.                             *)
(*                                                                         *)
(* A Python str is a sequence of one-character strings, so that split,     *)
(* join, startswith, strip, shlex.split and base64 decoding are computed   *)
(* character by character.  Fixed message texts of the program appear as   *)
(* single elements of such a sequence ("VFS not loaded").                  *)
(* A Python dict is a sequence of [key, val] pairs in insertion order.     *)
(***************************************************************************)
EXTENDS Naturals, Sequences, FiniteSets

VARIABLES
    args,          \* main: parsed command line [vfs_path, script]
    csv_file,      \* the file named by --vfs-path: [exists, rows]
    vfs,           \* main's vfs: <<>> is None, <<v>> a VFS object v
    pc,            \* position of main: "main", "prompt", "exec", "exited", "done", "eof"
    command_line,  \* the stripped line last read (input() or script line)
    out            \* text returned by handle_command for command_line

vars == <<args, csv_file, vfs, pc, command_line, out>>

----------------------------------------------------------------------------
(* Bounds of the model *)

\* longest CSV file, in rows
MaxRows == 2
\* longest path expression given to cd, in characters
MaxArgLen == 3

----------------------------------------------------------------------------
(* Python str operations *)

\* s.startswith(c) for a one-character c
StartsWith(s, c) == Len(s) > 0 /\ s[1] = c

\* position of the first c in s, 0 when there is none
FirstIndex(s, c) ==
    IF \E i \in 1..Len(s) : s[i] = c
    THEN CHOOSE i \in 1..Len(s) : s[i] = c /\ \A j \in 1..(i-1) : s[j] # c
    ELSE 0

RECURSIVE Split(_, _)
\* s.split(sep): every piece between separators, empty pieces included
Split(s, sep) ==
    LET i == FirstIndex(s, sep)
    IN  IF i = 0 THEN <<s>>
        ELSE <<SubSeq(s, 1, i-1)>> \o Split(SubSeq(s, i+1, Len(s)), sep)

RECURSIVE Join(_, _)
\* sep.join(parts)
Join(parts, sep) ==
    IF parts = <<>> THEN <<>>
    ELSE IF Len(parts) = 1 THEN parts[1]
    ELSE parts[1] \o <<sep>> \o Join(Tail(parts), sep)

IsNonEmpty(p) == p # <<>>

\* [p for p in path.split('/') if p]
PathParts(path) == SelectSeq(Split(path, "/"), IsNonEmpty)

RECURSIVE LStrip(_)
LStrip(s) == IF StartsWith(s, " ") THEN LStrip(Tail(s)) ELSE s

RECURSIVE RStrip(_)
RStrip(s) ==
    IF Len(s) > 0 /\ s[Len(s)] = " " THEN RStrip(SubSeq(s, 1, Len(s)-1)) ELSE s

\* s.strip(), for the whitespace of the model (the space)
Strip(s) == RStrip(LStrip(s))

----------------------------------------------------------------------------
(* Python dict, insertion ordered *)

HasKey(d, k) == \E i \in DOMAIN d : d[i].key = k

KeyIndex(d, k) == CHOOSE i \in DOMAIN d : d[i].key = k

\* d[k]
Get(d, k) == d[KeyIndex(d, k)].val

\* d[k] = v: an existing key keeps its position, a new key goes last
Put(d, k, v) ==
    IF HasKey(d, k)
    THEN [d EXCEPT ![KeyIndex(d, k)] = [key |-> k, val |-> v]]
    ELSE Append(d, [key |-> k, val |-> v])

\* list(d.keys())
Keys(d) == [i \in DOMAIN d |-> d[i].key]

----------------------------------------------------------------------------
(* VFSNode and VFS *)

\* Python's None, as a content value
None == <<"<None>">>

VFSNode(name, node_type, content) ==
    [name |-> name, type |-> node_type, content |-> content, children |-> <<>>]

\* VFS.__init__
NewVFS == [root |-> VFSNode(<<>>, "dir", None), current_path |-> <<"/">>]

----------------------------------------------------------------------------
(* base64.b64decode(content).decode('utf-8') *)

\* the 64 digits of base64, digit i (from 0) at position i+1
B64Alphabet ==
    <<
       "A", "B", "C", "D", "E", "F", "G", "H", "I", "J", "K", "L", "M", "N", "O", "P",
       "Q", "R", "S", "T", "U", "V", "W", "X", "Y", "Z", "a", "b", "c", "d", "e", "f",
       "g", "h", "i", "j", "k", "l", "m", "n", "o", "p", "q", "r", "s", "t", "u", "v",
       "w", "x", "y", "z", "0", "1", "2", "3", "4", "5", "6", "7", "8", "9", "+", "/"
    >>

\* the characters of codes 32..126, code c at position c-31 (code 96 by name)
Printable ==
    <<
       " ", "!", "\"", "#", "$", "%", "&", "'", "(", ")", "*", "+", ",", "-", ".", "/",
       "0", "1", "2", "3", "4", "5", "6", "7", "8", "9", ":", ";", "<", "=", ">", "?",
       "@", "A", "B", "C", "D", "E", "F", "G", "H", "I", "J", "K", "L", "M", "N", "O",
       "P", "Q", "R", "S", "T", "U", "V", "W", "X", "Y", "Z", "[", "\\", "]", "^", "_",
       "<grave>", "a", "b", "c", "d", "e", "f", "g", "h", "i", "j", "k", "l", "m", "n", "o",
       "p", "q", "r", "s", "t", "u", "v", "w", "x", "y", "z", "{", "|", "}", "~"
    >>

IsB64Digit(c) == \E i \in 1..64 : B64Alphabet[i] = c

IsPad(c) == c = "="

\* the value 0..63 of a base64 digit
Sextet(c) == (CHOOSE i \in 1..64 : B64Alphabet[i] = c) - 1

\* chr(b) for a byte below 128
Chr(b) == IF b \in 32..126 THEN Printable[b - 31] ELSE "<ctl>"

RECURSIVE B64Bytes(_)
\* the bytes that a sequence of base64 digits (padding removed) encodes
B64Bytes(d) ==
    IF Len(d) >= 4
    THEN LET v == Sextet(d[1]) * 262144 + Sextet(d[2]) * 4096
                  + Sextet(d[3]) * 64 + Sextet(d[4])
         IN  <<v \div 65536, (v \div 256) % 256, v % 256>>
             \o B64Bytes(SubSeq(d, 5, Len(d)))
    ELSE IF Len(d) = 3
    THEN LET v == Sextet(d[1]) * 4096 + Sextet(d[2]) * 64 + Sextet(d[3])
         IN  <<v \div 1024, (v \div 4) % 256>>
    ELSE IF Len(d) = 2
    THEN LET v == Sextet(d[1]) * 64 + Sextet(d[2])
         IN  <<v \div 16>>
    ELSE <<>>

\* base64.b64decode(s): characters outside the alphabet are discarded (the
\* default validate=False); [exc, val] with exc the raised error's message,
\* "" when none is raised.  Padding is counted, not positioned: the inputs
\* of the model carry their "=" at the end.
b64decode(s) ==
    LET digits == SelectSeq(s, IsB64Digit)
        pads   == Len(SelectSeq(s, IsPad))
        n      == Len(digits) % 4
    IN  IF n = 1
        THEN [exc |-> "Invalid base64-encoded string", val |-> <<>>]
        ELSE IF (n = 2 /\ pads < 2) \/ (n = 3 /\ pads < 1)
        THEN [exc |-> "Incorrect padding", val |-> <<>>]
        ELSE [exc |-> "", val |-> B64Bytes(digits)]

\* bytes.decode('utf-8') of bytes below 128; a byte of 128 or more raises
\* (the inputs of the model hold no multi-byte sequence, only the byte 0xff)
utf8decode(bytes) ==
    IF \E i \in 1..Len(bytes) : bytes[i] >= 128
    THEN [exc |-> "'utf-8' codec can't decode byte", val |-> <<>>]
    ELSE [exc |-> "", val |-> [i \in 1..Len(bytes) |-> Chr(bytes[i])]]

\* lines 30-34: the content stored for a row
RowContent(node_type, content) ==
    IF node_type = "file" /\ content # <<>>
    THEN LET b == b64decode(content)
             t == IF b.exc = "" THEN utf8decode(b.val) ELSE b
         IN  IF t.exc = "" THEN t.val
             ELSE <<"Error decoding content: ", t.exc>>
    ELSE content

----------------------------------------------------------------------------
(* VFS._add_node and VFS.load_from_csv *)

RECURSIVE AddAt(_, _, _, _)
\* lines 47-55 below node `current`: walk parts[:-1], creating a "dir" node for
\* a missing part and descending into an existing child whatever its type,
\* then bind parts[-1] to a fresh node
AddAt(current, parts, node_type, content) ==
    LET part == parts[1]
    IN  IF Len(parts) = 1
        THEN [current EXCEPT
                !.children = Put(@, part, VFSNode(part, node_type, content))]
        ELSE LET child == IF HasKey(current.children, part)
                          THEN Get(current.children, part)
                          ELSE VFSNode(part, "dir", None)
             IN  [current EXCEPT
                    !.children = Put(@, part,
                                     AddAt(child, Tail(parts), node_type, content))]

\* VFS._add_node on the tree `root`: [exc, root]; parts[-1] of an empty list
\* raises IndexError before anything is changed
add_node(root, path, node_type, content) ==
    IF path = <<"/">> THEN [exc |-> "", root |-> root]
    ELSE LET parts == PathParts(path)
         IN  IF parts = <<>>
             THEN [exc |-> "list index out of range", root |-> root]
             ELSE [exc |-> "", root |-> AddAt(root, parts, node_type, content)]

RECURSIVE LoadRows(_, _)
\* the loop of lines 25-36 over the rows still to read: [exc, root]
LoadRows(root, rows) ==
    IF rows = <<>> THEN [exc |-> "", root |-> root]
    ELSE LET row == rows[1]
             r   == add_node(root, row.path, row.type,
                             RowContent(row.type, row.content))
         IN  IF r.exc # "" THEN r ELSE LoadRows(r.root, Tail(rows))

\* VFS.load_from_csv on VFS object v: [exc, vfs]; every exception leaves as
\* an Exception (lines 37-40)
load_from_csv(v, file) ==
    IF ~file.exists
    THEN [exc |-> "VFS file not found", vfs |-> v]
    ELSE LET r == LoadRows(v.root, file.rows)
         IN  [exc |-> IF r.exc = "" THEN "" ELSE "Error loading VFS",
              vfs |-> [v EXCEPT !.root = r.root]]

\* the node that the segments `parts` lead to from `node`: <<n>>, or <<>>
RECURSIVE Walk(_, _)
Walk(node, parts) ==
    IF parts = <<>> THEN <<node>>
    ELSE IF HasKey(node.children, parts[1])
    THEN Walk(Get(node.children, parts[1]), Tail(parts))
    ELSE <<>>

\* VFS.get_current_dir: <<node>>, or <<>> for None
get_current_dir(v) == Walk(v.root, PathParts(v.current_path))

----------------------------------------------------------------------------
(* shlex.split *)

IsQuote(c) == c = "'" \/ c = "\""

RECURSIVE ShlexScan(_, _, _, _, _)
\* shlex.split(s) in POSIX mode over blanks, quotes and ordinary characters
\* (the lines of the model hold no backslash): `token` is the
\* token being read, `open` whether one is being read (a quoted empty string
\* is a token), `quote` the open quote or "", `parts` the tokens read.
\* [exc, parts]; an unclosed quote raises ValueError("No closing quotation")
ShlexScan(s, token, open, quote, parts) ==
    IF s = <<>>
    THEN IF quote # ""
         THEN [exc |-> "No closing quotation", parts |-> <<>>]
         ELSE [exc |-> "", parts |-> IF open THEN Append(parts, token) ELSE parts]
    ELSE LET c == s[1]
             rest == Tail(s)
         IN  IF quote # ""
             THEN IF c = quote
                  THEN ShlexScan(rest, token, TRUE, "", parts)
                  ELSE ShlexScan(rest, Append(token, c), TRUE, quote, parts)
             ELSE IF c = " "
             THEN ShlexScan(rest, <<>>, FALSE, "",
                            IF open THEN Append(parts, token) ELSE parts)
             ELSE IF IsQuote(c)
             THEN ShlexScan(rest, token, TRUE, c, parts)
             ELSE ShlexScan(rest, Append(token, c), TRUE, "", parts)

shlex_split(s) == ShlexScan(s, <<>>, FALSE, "", <<>>)

----------------------------------------------------------------------------
(* The commands.  `v` is the handler's vfs argument: <<>> or <<VFS object>> *)

\* handle_ls with the listing taken at the root instead of current_path
handle_ls_at_root(cmd_args, v) ==
    IF v = <<>> THEN <<"VFS not loaded">>
    ELSE Join(Keys(v[1].root.children), " ")

\* handle_ls: the returned text
handle_ls(cmd_args, v) ==
    IF v = <<>> THEN <<"VFS not loaded">>
    ELSE LET current_dir == get_current_dir(v[1])
         IN  IF current_dir = <<>> THEN <<"Invalid directory">>
             ELSE IF current_dir[1].type # "dir" THEN <<"Not a directory">>
             ELSE Join(Keys(current_dir[1].children), " ")

\* lines 119-127: the path that cd normalizes
JoinedPath(current, target_path) ==
    IF StartsWith(target_path, "/") THEN target_path
    ELSE IF current = <<"/">> THEN <<"/">> \o target_path
    ELSE current \o <<"/">> \o target_path

IsSegment(p) == p # <<>> /\ p # <<".">>

RECURSIVE Resolve_never_pops(_, _)
\* Resolve where ".." is dropped like "." instead of popping the stack
Resolve_never_pops(parts, resolved_parts) ==
    IF parts = <<>> THEN resolved_parts
    ELSE IF parts[1] = <<".", ".">>
    THEN Resolve_never_pops(Tail(parts), resolved_parts)
    ELSE Resolve_never_pops(Tail(parts), Append(resolved_parts, parts[1]))

RECURSIVE Resolve(_, _)
\* lines 131-137: the stack left by the parts still to read
Resolve(parts, resolved_parts) ==
    IF parts = <<>> THEN resolved_parts
    ELSE IF parts[1] = <<".", ".">>
    THEN Resolve(Tail(parts),
                 IF resolved_parts # <<>>
                 THEN SubSeq(resolved_parts, 1, Len(resolved_parts) - 1)
                 ELSE resolved_parts)
    ELSE Resolve(Tail(parts), Append(resolved_parts, parts[1]))

\* Normalize with empty segments kept (only "." filtered out)
Normalize_keeps_empty(new_path) ==
    LET NotDot(p) == p # <<".">>
    IN  <<"/">> \o Join(Resolve(SelectSeq(Split(new_path, "/"), NotDot), <<>>), "/")

\* lines 130-139
Normalize(new_path) ==
    <<"/">> \o Join(Resolve(SelectSeq(Split(new_path, "/"), IsSegment), <<>>), "/")

RECURSIVE AllDirs_any_type(_, _)
\* AllDirs without the test of the child's type
AllDirs_any_type(current, test_parts) ==
    IF test_parts = <<>> THEN TRUE
    ELSE /\ HasKey(current.children, test_parts[1])
         /\ AllDirs_any_type(Get(current.children, test_parts[1]), Tail(test_parts))

RECURSIVE AllDirs(_, _)
\* lines 143-148: every part names a child of type "dir"
AllDirs(current, test_parts) ==
    IF test_parts = <<>> THEN TRUE
    ELSE /\ HasKey(current.children, test_parts[1])
         /\ Get(current.children, test_parts[1]).type = "dir"
         /\ AllDirs(Get(current.children, test_parts[1]), Tail(test_parts))

\* handle_cd with current_path assigned before the existence check
handle_cd_assigns_first(cmd_args, v) ==
    IF v = <<>> THEN [out |-> <<"VFS not loaded">>, vfs |-> v]
    ELSE IF Len(cmd_args) # 1 THEN [out |-> <<"cd: missing argument">>, vfs |-> v]
    ELSE LET target_path == cmd_args[1]
             new_path == Normalize(JoinedPath(v[1].current_path, target_path))
             moved == <<[v[1] EXCEPT !.current_path = new_path]>>
         IN  IF AllDirs(v[1].root, PathParts(new_path))
             THEN [out |-> <<>>, vfs |-> moved]
             ELSE [out |-> <<"cd: ">> \o target_path \o <<": ", "No such directory">>,
                   vfs |-> moved]

\* handle_cd where cd without an argument goes to the root
handle_cd_home(cmd_args, v) ==
    IF v = <<>> THEN [out |-> <<"VFS not loaded">>, vfs |-> v]
    ELSE IF Len(cmd_args) = 0
    THEN [out |-> <<>>, vfs |-> <<[v[1] EXCEPT !.current_path = <<"/">>]>>]
    ELSE IF Len(cmd_args) # 1 THEN [out |-> <<"cd: missing argument">>, vfs |-> v]
    ELSE LET target_path == cmd_args[1]
             new_path == Normalize(JoinedPath(v[1].current_path, target_path))
         IN  IF AllDirs(v[1].root, PathParts(new_path))
             THEN [out |-> <<>>, vfs |-> <<[v[1] EXCEPT !.current_path = new_path]>>]
             ELSE [out |-> <<"cd: ">> \o target_path \o <<": ", "No such directory">>,
                   vfs |-> v]

\* handle_cd that walks like _add_node: a missing directory is created
handle_cd_creates(cmd_args, v) ==
    IF v = <<>> THEN [out |-> <<"VFS not loaded">>, vfs |-> v]
    ELSE IF Len(cmd_args) # 1 THEN [out |-> <<"cd: missing argument">>, vfs |-> v]
    ELSE LET target_path == cmd_args[1]
             new_path == Normalize(JoinedPath(v[1].current_path, target_path))
         IN  IF AllDirs(v[1].root, PathParts(new_path))
             THEN [out |-> <<>>, vfs |-> <<[v[1] EXCEPT !.current_path = new_path]>>]
             ELSE [out |-> <<>>,
                   vfs |-> <<[root |-> AddAt(v[1].root, PathParts(new_path), "dir", None),
                              current_path |-> new_path]>>]

\* handle_cd: [out, vfs]
handle_cd(cmd_args, v) ==
    IF v = <<>> THEN [out |-> <<"VFS not loaded">>, vfs |-> v]
    ELSE IF Len(cmd_args) # 1 THEN [out |-> <<"cd: missing argument">>, vfs |-> v]
    ELSE LET target_path == cmd_args[1]
             new_path == Normalize(JoinedPath(v[1].current_path, target_path))
         IN  IF AllDirs(v[1].root, PathParts(new_path))
             THEN [out |-> <<>>, vfs |-> <<[v[1] EXCEPT !.current_path = new_path]>>]
             ELSE [out |-> <<"cd: ">> \o target_path \o <<": ", "No such directory">>,
                   vfs |-> v]

\* handle_command without the except clause of lines 93-94: the ValueError
\* of shlex.split leaves the handler and ends the run
handle_command_uncaught(line, v) ==
    LET t == shlex_split(line)
        parts == t.parts
    IN  IF t.exc # ""
        THEN [exit |-> TRUE, out |-> <<>>, vfs |-> v]
        ELSE IF parts = <<>>
        THEN [exit |-> FALSE, out |-> <<>>, vfs |-> v]
        ELSE IF parts[1] = <<"e", "x", "i", "t">>
        THEN [exit |-> TRUE, out |-> <<>>, vfs |-> v]
        ELSE IF parts[1] = <<"l", "s">>
        THEN [exit |-> FALSE, out |-> handle_ls(Tail(parts), v), vfs |-> v]
        ELSE IF parts[1] = <<"c", "d">>
        THEN LET r == handle_cd(Tail(parts), v)
             IN  [exit |-> FALSE, out |-> r.out, vfs |-> r.vfs]
        ELSE [exit |-> FALSE, out |-> <<"Command not found: ">> \o parts[1], vfs |-> v]

\* handle_command where exit returns an empty text instead of leaving
handle_command_exit_returns(line, v) ==
    LET t == shlex_split(line)
        parts == t.parts
    IN  IF t.exc # ""
        THEN [exit |-> FALSE, out |-> <<"Parsing error: ", t.exc>>, vfs |-> v]
        ELSE IF parts = <<>>
        THEN [exit |-> FALSE, out |-> <<>>, vfs |-> v]
        ELSE IF parts[1] = <<"e", "x", "i", "t">>
        THEN [exit |-> FALSE, out |-> <<>>, vfs |-> v]
        ELSE IF parts[1] = <<"l", "s">>
        THEN [exit |-> FALSE, out |-> handle_ls(Tail(parts), v), vfs |-> v]
        ELSE IF parts[1] = <<"c", "d">>
        THEN LET r == handle_cd(Tail(parts), v)
             IN  [exit |-> FALSE, out |-> r.out, vfs |-> r.vfs]
        ELSE [exit |-> FALSE, out |-> <<"Command not found: ">> \o parts[1], vfs |-> v]

\* handle_command: [exit, out, vfs]; exit is sys.exit(0), which returns nothing
handle_command(line, v) ==
    LET t == shlex_split(line)
        parts == t.parts
    IN  IF t.exc # ""
        THEN [exit |-> FALSE, out |-> <<"Parsing error: ", t.exc>>, vfs |-> v]
        ELSE IF parts = <<>>
        THEN [exit |-> FALSE, out |-> <<>>, vfs |-> v]
        ELSE IF parts[1] = <<"e", "x", "i", "t">>
        THEN [exit |-> TRUE, out |-> <<>>, vfs |-> v]
        ELSE IF parts[1] = <<"l", "s">>
        THEN [exit |-> FALSE, out |-> handle_ls(Tail(parts), v), vfs |-> v]
        ELSE IF parts[1] = <<"c", "d">>
        THEN LET r == handle_cd(Tail(parts), v)
             IN  [exit |-> FALSE, out |-> r.out, vfs |-> r.vfs]
        ELSE [exit |-> FALSE, out |-> <<"Command not found: ">> \o parts[1], vfs |-> v]

----------------------------------------------------------------------------
(* Inputs *)

\* the characters of the path expressions given to cd
PathChars == {"/", ".", "d", "f"}

PathExprs == UNION {[1..n -> PathChars] : n \in 1..MaxArgLen}

CdLines == {<<"c", "d", " ">> \o p : p \in PathExprs}

\* the other lines typed or scripted
OtherLines ==
    { <<>>,
      <<"l", "s">>,
      <<" ", "l", "s", " ">>,
      <<"l", "s", " ", "d">>,
      <<"c", "d">>,
      <<"c", "d", " ", "d", " ", "d">>,
      <<"c", "d", " ", "'", "d">>,
      <<"c", "d", " ", "'", "d", "'">>,
      <<"c", "d", " ", "/", "d", "/", "d">>,
      <<"m", "k", "d", "i", "r", " ", "x">>,
      <<"p", "w", "d">>,
      <<"#", "l", "s">>,
      <<"e", "x", "i", "t">> }

Lines == CdLines \cup OtherLines

\* "hi" in base64, the same with its padding cut, and the byte 0xff
B64_hi == <<"a", "G", "k", "=">>
B64_hi_cut == <<"a", "G", "k">>
B64_ff == <<"/", "w", "=", "=">>

P_d == <<"/", "d">>
P_d_f == <<"/", "d", "/", "f">>
P_d_d == <<"/", "d", "/", "d">>
P_f == <<"/", "f">>
P_f_d == <<"/", "f", "/", "d">>

Row(path, node_type, content) ==
    [path |-> path, type |-> node_type, content |-> content]

NoFile == [exists |-> FALSE, rows |-> <<>>]

\* the CSV file of the shell runs' first tree: a directory d holding a file f
DocsFile ==
    [exists |-> TRUE,
     rows |-> <<Row(P_d, "dir", <<>>), Row(P_d_f, "file", B64_hi)>>]

\* a second tree: a file f and a directory d at the root, d holding a
\* directory d
DeepFile ==
    [exists |-> TRUE,
     rows |-> <<Row(P_f, "file", <<>>), Row(P_d, "dir", <<>>),
                Row(P_d_d, "dir", <<>>)>>]

\* a third tree: a file f at the root with a directory d recorded below it
OddFile ==
    [exists |-> TRUE,
     rows |-> <<Row(P_f, "file", B64_hi), Row(P_f_d, "dir", <<>>)>>]

\* the CSV files of the shell runs
SampleFiles == {DocsFile, DeepFile, OddFile, NoFile}

\* the rows of the CSV files of the loader runs
LoadRecords ==
    {Row(p, "dir", <<>>) : p \in {<<>>, <<"/">>, P_d, P_d_f}}
    \cup {Row(p, "file", c) : p \in {<<>>, P_d, P_d_f},
                               c \in {<<>>, B64_hi, B64_hi_cut, B64_ff}}

LoadFiles ==
    {[exists |-> TRUE, rows |-> r] :
        r \in UNION {[1..n -> LoadRecords] : n \in 0..MaxRows}}
    \cup {NoFile}

\* the lines typed or scripted in the loader runs
ProbeLines ==
    { <<"l", "s">>,
      <<"c", "d", " ", "d">>,
      <<"c", "d", " ", "d", "/", "f">>,
      <<"c", "d", " ", ".", ".">>,
      <<"e", "x", "i", "t">> }

----------------------------------------------------------------------------
(* main and execute_script *)

\* no text returned yet
Unbound == <<"<unbound>">>

InitWith(files) ==
    /\ args \in [vfs_path : BOOLEAN, script : BOOLEAN]
    /\ csv_file \in files
    /\ ~args.vfs_path => csv_file = NoFile
    /\ vfs = <<>>
    /\ pc = "main"
    /\ command_line = <<>>
    /\ out = Unbound

Init == InitWith(SampleFiles)

InitLoad == InitWith(LoadFiles)

\* LoadVFS without line 188: the VFS object survives a load that raised
LoadVFS_keeps_partial ==
    /\ pc = "main"
    /\ vfs' = IF args.vfs_path
              THEN <<load_from_csv(NewVFS, csv_file).vfs>>
              ELSE <<>>
    /\ pc' = "prompt"
    /\ UNCHANGED <<args, csv_file, command_line, out>>

\* main, lines 180-188: load the VFS when --vfs-path is given; a load that
\* raises leaves vfs None
LoadVFS ==
    /\ pc = "main"
    /\ vfs' = IF args.vfs_path
              THEN LET r == load_from_csv(NewVFS, csv_file)
                   IN  IF r.exc = "" THEN <<r.vfs>> ELSE <<>>
              ELSE <<>>
    /\ pc' = "prompt"
    /\ UNCHANGED <<args, csv_file, command_line, out>>

\* main, lines 194-196: a line is typed.  The text returned for the line
\* before is forgotten here: nothing reads it any more
ReadLine(l) ==
    /\ pc = "prompt"
    /\ ~args.script
    /\ command_line' = Strip(l)
    /\ out' = Unbound
    /\ pc' = "exec"
    /\ UNCHANGED <<args, csv_file, vfs>>

\* main, line 196 when standard input is at its end: input() raises EOFError,
\* which nothing catches
InputEOF ==
    /\ pc = "prompt"
    /\ ~args.script
    /\ pc' = "eof"
    /\ UNCHANGED <<args, csv_file, vfs, command_line, out>>

\* execute_script, lines 156-159: the next line of the script that is neither
\* empty nor a comment
ScriptLine(l) ==
    /\ pc = "prompt"
    /\ args.script
    /\ Strip(l) # <<>>
    /\ ~StartsWith(Strip(l), "#")
    /\ command_line' = Strip(l)
    /\ out' = Unbound
    /\ pc' = "exec"
    /\ UNCHANGED <<args, csv_file, vfs>>

\* execute_script: the script has no further line, and main returns
ScriptEnd ==
    /\ pc = "prompt"
    /\ args.script
    /\ pc' = "done"
    /\ UNCHANGED <<args, csv_file, vfs, command_line, out>>

\* main line 197, execute_script line 160: the command runs to its end;
\* SystemExit passes through both except clauses
HandleCommand ==
    /\ pc = "exec"
    /\ LET r == handle_command(command_line, vfs)
       IN  IF r.exit
           THEN /\ pc' = "exited"
                /\ UNCHANGED <<vfs, out>>
           ELSE /\ pc' = "prompt"
                /\ vfs' = r.vfs
                /\ out' = r.out
    /\ UNCHANGED <<args, csv_file, command_line>>

Next ==
    \/ LoadVFS
    \/ \E l \in Lines : ReadLine(l)
    \/ InputEOF
    \/ \E l \in Lines : ScriptLine(l)
    \/ ScriptEnd
    \/ HandleCommand

Spec == Init /\ [][Next]_vars

NextLoad ==
    \/ LoadVFS
    \/ \E l \in ProbeLines : ReadLine(l)
    \/ InputEOF
    \/ \E l \in ProbeLines : ScriptLine(l)
    \/ ScriptEnd
    \/ HandleCommand

SpecLoad == InitLoad /\ [][NextLoad]_vars

----------------------------------------------------------------------------
(* Reference definitions for the properties, written from the documented    *)
(* behaviour (path resolution, lookup, base64) and not from the handlers    *)

Contains(text, piece) == \E i \in 1..Len(text) : text[i] = piece

T_ls == <<"l", "s">>
T_cd == <<"c", "d">>
T_mkdir == <<"m", "k", "d", "i", "r">>

\* the words of command_line, <<>> when it does not tokenize
Words == LET t == shlex_split(command_line)
         IN  IF t.exc = "" THEN t.parts ELSE <<>>

\* command `name` is about to run / has just returned
Runs(name) == pc = "exec" /\ Words # <<>> /\ Words[1] = name
Ran(name) == pc = "prompt" /\ out # Unbound /\ Words # <<>> /\ Words[1] = name

\* the stack after segment `seg` ends: resolving rules 2 and 3
RefClose(seg, stack) ==
    IF seg = <<>> \/ seg = <<".">> THEN stack
    ELSE IF seg = <<".", ".">>
    THEN IF stack = <<>> THEN stack ELSE SubSeq(stack, 1, Len(stack) - 1)
    ELSE Append(stack, seg)

RECURSIVE RefScan(_, _, _)
\* one pass over the characters of s
RefScan(s, seg, stack) ==
    IF s = <<>> THEN RefClose(seg, stack)
    ELSE IF s[1] = "/" THEN RefScan(Tail(s), <<>>, RefClose(seg, stack))
    ELSE RefScan(Tail(s), Append(seg, s[1]), stack)

\* the segments of the normalized absolute path of path_expr seen from current
RefResolve(current, path_expr) ==
    RefScan(IF path_expr # <<>> /\ path_expr[1] = "/" THEN path_expr
            ELSE current \o <<"/">> \o path_expr, <<>>, <<>>)

RECURSIVE RefSegments(_, _)
\* the non-empty segments of a record's path (no "." or ".." rule)
RefSegments(s, seg) ==
    IF s = <<>> THEN IF seg = <<>> THEN <<>> ELSE <<seg>>
    ELSE IF s[1] = "/"
    THEN (IF seg = <<>> THEN <<>> ELSE <<seg>>) \o RefSegments(Tail(s), <<>>)
    ELSE RefSegments(Tail(s), Append(seg, s[1]))

RECURSIVE RefNode(_, _)
\* the node that segs lead to, whatever the types on the way: <<n>> or <<>>
RefNode(node, segs) ==
    IF segs = <<>> THEN <<node>>
    ELSE IF \E i \in DOMAIN node.children : node.children[i].key = segs[1]
    THEN RefNode((CHOOSE e \in {node.children[i] : i \in DOMAIN node.children} :
                    e.key = segs[1]).val, Tail(segs))
    ELSE <<>>

\* the Directory that segs lead to through Directories only: <<n>> or <<>>
RefDirectory(root, segs) ==
    IF \A k \in 0..Len(segs) :
          LET n == RefNode(root, SubSeq(segs, 1, k))
          IN  n # <<>> /\ n[1].type = "dir"
    THEN RefNode(root, segs)
    ELSE <<>>

\* the names of a Directory's children in the order of its mapping, spaced
RefListing(node) ==
    Join([i \in DOMAIN node.children |-> node.children[i].key], " ")

\* the directory at current_path of the loaded VFS: <<n>> or <<>>
CurrentDirectory == RefDirectory(vfs[1].root, RefResolve(<<"/">>, vfs[1].current_path))

\* strict base64: digits in groups of four, the last group padded by up to two "="
IsValidBase64(c) ==
    /\ Len(c) % 4 = 0
    /\ \E k \in 0..2 :
          /\ k <= Len(c)
          /\ \A i \in 1..Len(c) :
                IF i <= Len(c) - k THEN IsB64Digit(c[i]) ELSE c[i] = "="

\* the text that the base64 contents of the loader runs encode
RefDecoded(c) == IF c = B64_hi THEN <<"h", "i">> ELSE <<>>

HasRefDecoded(c) == c \in {<<>>, B64_hi}

\* main has tried to load the file named by --vfs-path
LoadTried == pc # "main" /\ args.vfs_path

----------------------------------------------------------------------------
(* C1: with a VFS loaded, a cd whose path expression resolves to a path    *)
(* that is missing from the tree, or that passes through or ends at a node *)
(* that is not a Directory, returns a text containing "No such directory"  *)
(* and leaves current_path and the tree as they were.                      *)

C1_FailingCd ==
    /\ Runs(T_cd)
    /\ vfs # <<>>
    /\ Len(Words) = 2
    /\ RefDirectory(vfs[1].root, RefResolve(vfs[1].current_path, Words[2])) = <<>>

C1_FailedCdChangesNothing ==
    [][C1_FailingCd => (Contains(out', "No such directory") /\ vfs' = vfs)]_vars

\* "cd f" has failed inside /d, where f is a file
C1_Witness ==
    /\ Ran(T_cd)
    /\ vfs # <<>>
    /\ Words = <<T_cd, <<"f">>>>
    /\ vfs[1].current_path = <<"/", "d">>
    /\ RefNode(vfs[1].root, <<<<"d">>, <<"f">>>>) # <<>>
    /\ Contains(out, "No such directory")

----------------------------------------------------------------------------
(* C2: with a VFS loaded, "mkdir x" in a directory without a child x       *)
(* succeeds and adds exactly one Directory child x; "mkdir x" in a         *)
(* directory that has a child x fails with "already exists" and changes    *)
(* nothing; current_path is unchanged by both.                             *)

C2_Mkdir ==
    /\ Runs(T_mkdir)
    /\ vfs # <<>>
    /\ Len(Words) = 2
    /\ CurrentDirectory # <<>>

C2_MkdirCreatesOnce ==
    [][C2_Mkdir =>
        LET before == CurrentDirectory[1].children
        IN  IF \E i \in DOMAIN before : before[i].key = Words[2]
            THEN Contains(out', "already exists") /\ vfs' = vfs
            ELSE /\ vfs' # <<>>
                 /\ vfs'[1].current_path = vfs[1].current_path
                 /\ LET now == RefDirectory(vfs'[1].root,
                                            RefResolve(<<"/">>, vfs[1].current_path))
                    IN  /\ now # <<>>
                        /\ Len(now[1].children) = Len(before) + 1
                        /\ SubSeq(now[1].children, 1, Len(before)) = before
                        /\ now[1].children[Len(before) + 1].key = Words[2]
                        /\ now[1].children[Len(before) + 1].val.type = "dir"]_vars

----------------------------------------------------------------------------
(* C3: a file that declares one path once as dir and once as file, in      *)
(* either order, fails to load: the session has no VFS.                    *)

DeclaresBothTypes(rows) ==
    \E i, j \in 1..Len(rows) :
        /\ rows[i].path = rows[j].path
        /\ rows[i].type = "dir"
        /\ rows[j].type = "file"

C3_TypeConflictFailsLoad ==
    (LoadTried /\ csv_file.exists /\ DeclaresBothTypes(csv_file.rows)) => vfs = <<>>

----------------------------------------------------------------------------
(* C4: a file with a record whose parent path no earlier record declared   *)
(* fails to load: the session has no VFS, and no directory was created     *)
(* for the missing parent.                                                 *)

HasMissingParent(rows) ==
    \E i \in 1..Len(rows) :
        LET segs == RefSegments(rows[i].path, <<>>)
        IN  /\ Len(segs) >= 2
            /\ \A j \in 1..(i-1) :
                  RefSegments(rows[j].path, <<>>) # SubSeq(segs, 1, Len(segs) - 1)

C4_MissingParentFailsLoad ==
    (LoadTried /\ csv_file.exists /\ HasMissingParent(csv_file.rows)) => vfs = <<>>

----------------------------------------------------------------------------
(* C5: a file with a file record whose content is not valid base64 fails   *)
(* to load: the session has no VFS.                                        *)

HasBadEncoding(rows) ==
    \E i \in 1..Len(rows) :
        rows[i].type = "file" /\ ~IsValidBase64(rows[i].content)

C5_BadEncodingFailsLoad ==
    (LoadTried /\ csv_file.exists /\ HasBadEncoding(csv_file.rows)) => vfs = <<>>

----------------------------------------------------------------------------
(* C6: when the load raises, at whatever record, the session has no VFS,   *)
(* and every ls and cd after it returns "VFS not loaded".                  *)

LoadRaised == LoadTried /\ load_from_csv(NewVFS, csv_file).exc # ""

C6_FailedLoadLeavesNoVFS ==
    LoadRaised =>
        /\ vfs = <<>>
        /\ (Ran(T_ls) \/ Ran(T_cd)) => out = <<"VFS not loaded">>

\* the load raised at its second record, after a directory was added, and
\* an ls has run since
C6_Witness ==
    /\ LoadRaised
    /\ Len(csv_file.rows) = 2
    /\ csv_file.rows[1] = Row(P_d, "dir", <<>>)
    /\ Ran(T_ls)
    /\ out = <<"VFS not loaded">>

----------------------------------------------------------------------------
(* C7: after a load that succeeded, every file record of the source whose  *)
(* content decodes has, at its path, a File node holding the decoded       *)
(* content.                                                                *)

C7_LoadedContentRoundTrip ==
    (LoadTried /\ vfs # <<>>) =>
        \A i \in 1..Len(csv_file.rows) :
            LET row == csv_file.rows[i]
                n == RefNode(vfs[1].root, RefSegments(row.path, <<>>))
            IN  (row.type = "file" /\ HasRefDecoded(row.content)) =>
                    /\ n # <<>>
                    /\ n[1].type = "file"
                    /\ n[1].content = RefDecoded(row.content)

----------------------------------------------------------------------------
(* C8: with a VFS loaded, ls given one or more arguments returns an error  *)
(* about too many arguments, not the listing, and changes nothing.         *)

C8_LsWithArguments == Runs(T_ls) /\ vfs # <<>> /\ Len(Words) >= 2

C8_LsRejectsArguments ==
    [][C8_LsWithArguments =>
        /\ Contains(out', "too many arguments")
        /\ CurrentDirectory # <<>> => out' # RefListing(CurrentDirectory[1])
        /\ vfs' = vfs]_vars

----------------------------------------------------------------------------
(* C9: with a VFS loaded, ls without arguments returns the names of the    *)
(* children of the directory at current_path, in the order of its mapping, *)
(* joined by spaces; on the tree of DocsFile (d for docs, f for a.txt) ls  *)
(* at / returns d, cd d moves to /d, ls there returns f, cd .. moves back  *)
(* to /.                                                                   *)

C9_PlainLs == Runs(T_ls) /\ vfs # <<>> /\ Len(Words) = 1 /\ CurrentDirectory # <<>>

C9_At(path, words) ==
    /\ pc = "exec"
    /\ csv_file = DocsFile
    /\ vfs # <<>>
    /\ vfs[1].current_path = path
    /\ Words = words

C9_LsListsCurrentDirectory ==
    [][/\ C9_PlainLs => out' = RefListing(CurrentDirectory[1])
       /\ C9_At(<<"/">>, <<T_ls>>) => out' = <<"d">>
       /\ C9_At(<<"/">>, <<T_cd, <<"d">>>>) => vfs'[1].current_path = <<"/", "d">>
       /\ C9_At(<<"/", "d">>, <<T_ls>>) => out' = <<"f">>
       /\ C9_At(<<"/", "d">>, <<T_cd, <<".", ".">>>>) => vfs'[1].current_path = <<"/">>
      ]_vars

\* ls has listed f inside /d of the DocsFile tree
C9_Witness ==
    /\ Ran(T_ls)
    /\ Len(Words) = 1
    /\ csv_file = DocsFile
    /\ vfs # <<>>
    /\ vfs[1].current_path = <<"/", "d">>
    /\ out = <<"f">>

----------------------------------------------------------------------------
(* C10: in script mode no line is executed after a command whose result    *)
(* signals an error (a cd to a missing directory, an unknown command).     *)

SignalsError(text) ==
    \/ Contains(text, "No such directory")
    \/ Contains(text, "Command not found: ")

C10_ScriptHaltsOnError ==
    [][(pc = "prompt" /\ args.script /\ SignalsError(out)) => pc' # "exec"]_vars

----------------------------------------------------------------------------
(* C11: with a VFS loaded, "cd ." leaves current_path as it is; "cd .."    *)
(* at / leaves it at /; and cd to a normalized absolute path (a "/", then  *)
(* segments other than "." and ".." joined by single "/") of an existing   *)
(* directory sets current_path to exactly that text.                       *)

\* s is "/" followed by its own segments joined by "/", none "." or ".."
IsNormalizedAbsolute(s) ==
    LET segs == RefSegments(s, <<>>)
    IN  /\ s = <<"/">> \o Join(segs, "/")
        /\ \A i \in 1..Len(segs) : segs[i] # <<".">> /\ segs[i] # <<".", ".">>

C11_Cd(arg) == Runs(T_cd) /\ vfs # <<>> /\ Words = <<T_cd, arg>>

C11_NormalizationIsIdempotent ==
    [][/\ C11_Cd(<<".">>) => vfs'[1].current_path = vfs[1].current_path
       /\ (C11_Cd(<<".", ".">>) /\ vfs[1].current_path = <<"/">>)
             => vfs'[1].current_path = <<"/">>
       /\ (/\ Runs(T_cd) /\ vfs # <<>> /\ Len(Words) = 2
           /\ IsNormalizedAbsolute(Words[2])
           /\ RefDirectory(vfs[1].root, RefSegments(Words[2], <<>>)) # <<>>)
             => vfs'[1].current_path = Words[2]
      ]_vars

\* "cd /d/d" has succeeded from inside /d
C11_Witness ==
    /\ Ran(T_cd)
    /\ vfs # <<>>
    /\ Words = <<T_cd, <<"/", "d", "/", "d">>>>
    /\ vfs[1].current_path = <<"/", "d", "/", "d">>
    /\ out = <<>>

----------------------------------------------------------------------------
(* C12: current_path is "/" when the VFS is loaded, and a step changes it  *)
(* only when it is a cd with one argument that returns the empty text      *)
(* (a successful cd): ls, a failing cd, a cd with another number of        *)
(* arguments, an unknown command, an empty line and a line that does not   *)
(* tokenize leave it as it was.                                            *)

C12_OnlySuccessfulCdMoves ==
    [][/\ (pc = "main" /\ vfs' # <<>>) => vfs'[1].current_path = <<"/">>
       /\ (vfs # <<>> /\ vfs' # <<>> /\ vfs'[1].current_path # vfs[1].current_path)
             => (Runs(T_cd) /\ Len(Words) = 2 /\ out' = <<>>)
      ]_vars

\* a line with an unclosed quote has been answered inside /d
C12_Witness ==
    /\ pc = "prompt"
    /\ shlex_split(command_line).exc # ""
    /\ Contains(out, "Parsing error: ")
    /\ vfs # <<>>
    /\ vfs[1].current_path = <<"/", "d">>

----------------------------------------------------------------------------
(* C13: a line that does not tokenize is answered with a parsing error, a  *)
(* line naming an unknown command with "Command not found"; neither        *)
(* changes current_path or the tree, and neither ends the session: the     *)
(* next line can be read.  A command ends the session only if it is exit.  *)

T_exit == <<"e", "x", "i", "t">>

C13_Untokenizable == pc = "exec" /\ shlex_split(command_line).exc # ""

C13_Unknown == pc = "exec" /\ Words # <<>> /\ Words[1] \notin {T_exit, T_ls, T_cd}

\* the text of a parsing error or of an unknown command
C13_Refused(text) ==
    \/ Contains(text, "Parsing error: ")
    \/ Contains(text, "Command not found: ")

C13_NextLineCanBeRead ==
    \/ \E l \in Lines : ENABLED ReadLine(l)
    \/ \E l \in Lines : ENABLED ScriptLine(l)

C13_RefusedLinesKeepSession ==
    /\ [][/\ C13_Untokenizable
             => (pc' = "prompt" /\ vfs' = vfs /\ Contains(out', "Parsing error: "))
          /\ C13_Unknown
             => (/\ pc' = "prompt" /\ vfs' = vfs
                 /\ out' = <<"Command not found: ">> \o Words[1])
          /\ (pc = "exec" /\ pc' # "prompt") => Runs(T_exit)
         ]_vars
    /\ []((pc = "prompt" /\ C13_Refused(out)) => C13_NextLineCanBeRead)

\* "cd 'd" has been answered with a parsing error inside /d/d
C13_Witness ==
    /\ pc = "prompt"
    /\ command_line = <<"c", "d", " ", "'", "d">>
    /\ out = <<"Parsing error: ", "No closing quotation">>
    /\ vfs # <<>>
    /\ vfs[1].current_path = <<"/", "d", "/", "d">>

----------------------------------------------------------------------------
(* C14: in a load that succeeds, a record of type dir for a path that is   *)
(* a directory of the tree built by the records before it changes          *)
(* nothing: the directory is the same node, with every child and           *)
(* descendant, after the record as before it.                              *)

\* the tree after the first n rows of the file
TreeAfter(n) == LoadRows(NewVFS.root, SubSeq(csv_file.rows, 1, n)).root

C14_RedeclaredDirectoryKeepsChildren ==
    (LoadTried /\ vfs # <<>>) =>
        \A j \in 1..Len(csv_file.rows) :
            LET row == csv_file.rows[j]
                segs == RefSegments(row.path, <<>>)
                was == RefNode(TreeAfter(j - 1), segs)
            IN  (row.type = "dir" /\ segs # <<>> /\ was # <<>> /\ was[1].type = "dir")
                    => RefNode(TreeAfter(j), segs) = was

----------------------------------------------------------------------------
(* C15: whenever a VFS is loaded, no node of type file has children.       *)

RECURSIVE NoFileHasChildren(_)
NoFileHasChildren(node) ==
    /\ node.type = "file" => node.children = <<>>
    /\ \A i \in DOMAIN node.children : NoFileHasChildren(node.children[i].val)

C15_FilesHaveNoChildren ==
    vfs # <<>> => NoFileHasChildren(vfs[1].root)

----------------------------------------------------------------------------
(* C16: with a VFS loaded, a cd with one argument returns the empty text   *)
(* exactly when every segment of the reference normalization of the        *)
(* argument, walked from the root, names an existing Directory; it then    *)
(* sets current_path to "/" followed by those segments joined by "/".      *)

C16_CdFollowsReference ==
    [][(Runs(T_cd) /\ vfs # <<>> /\ Len(Words) = 2) =>
        LET segs == RefResolve(vfs[1].current_path, Words[2])
            found == RefDirectory(vfs[1].root, segs) # <<>>
        IN  /\ (out' = <<>>) <=> found
            /\ found => vfs'[1].current_path = <<"/">> \o Join(segs, "/")
      ]_vars

\* "cd ./d" has succeeded from /d
C16_Witness ==
    /\ Ran(T_cd)
    /\ vfs # <<>>
    /\ Words = <<T_cd, <<".", "/", "d">>>>
    /\ vfs[1].current_path = <<"/", "d", "/", "d">>
    /\ out = <<>>

----------------------------------------------------------------------------
(* C17: with a VFS loaded, no ls and no cd, successful or not, changes the *)
(* tree: the root after the command equals the root before it.             *)

C17_LookupIsReadOnly ==
    [][((Runs(T_ls) \/ Runs(T_cd)) /\ vfs # <<>>)
          => (vfs' # <<>> /\ vfs'[1].root = vfs[1].root)]_vars

\* a cd has moved to /d of the DeepFile tree, which is still as loaded
C17_Witness ==
    /\ Ran(T_cd)
    /\ csv_file = DeepFile
    /\ vfs # <<>>
    /\ vfs[1].current_path = <<"/", "d">>
    /\ vfs[1].root = load_from_csv(NewVFS, DeepFile).vfs.root

----------------------------------------------------------------------------
(* C18: when exit is dispatched, in interactive mode or in a script, the   *)
(* session ends at once without returning a text, and nothing happens      *)
(* after it: no line is read and no command runs.                          *)

C18_ExitEndsSession ==
    [][/\ Runs(T_exit) => (pc' = "exited" /\ out' = Unbound /\ vfs' = vfs)
       /\ pc = "exited" => UNCHANGED vars
      ]_vars

\* a script has run exit inside /d
C18_Witness ==
    /\ pc = "exited"
    /\ args.script
    /\ command_line = T_exit
    /\ vfs # <<>>
    /\ vfs[1].current_path = <<"/", "d">>

----------------------------------------------------------------------------
(* C19: whenever a VFS is loaded, current_path is a normalized absolute    *)
(* path whose segments, walked from the root, lead through Directories to  *)
(* a Directory; and an ls that has run returned neither "Invalid           *)
(* directory" nor "Not a directory".                                       *)

C19_CurrentPathIsADirectory ==
    vfs # <<>> =>
        /\ IsNormalizedAbsolute(vfs[1].current_path)
        /\ RefDirectory(vfs[1].root, RefSegments(vfs[1].current_path, <<>>)) # <<>>
        /\ Ran(T_ls) => (out # <<"Invalid directory">> /\ out # <<"Not a directory">>)

\* ls has listed the empty directory /d/d
C19_Witness ==
    /\ Ran(T_ls)
    /\ Len(Words) = 1
    /\ vfs # <<>>
    /\ vfs[1].current_path = <<"/", "d", "/", "d">>
    /\ out = <<>>

====
